---- MODULE Spec2Model ----
(***************************************************************************)
(* Model of the Qibla compass screen (SolatQibla): the location cache,     *)
(* the permission / position-fix / cache-write chain of                    *)
(* getCurrentLocation, the magnetometer subscription kept by the React     *)
(* effects, and the bearing / heading arithmetic.                          *)
(*                                                                         *)
(* Numbers.  JavaScript doubles are modelled in fixed point:               *)
(*   - angles in degrees are integers in units of 1/DegScale degree,       *)
(*   - radians and the values of sin / cos are integers in units of        *)
(*     1/RadScale.                                                         *)
(* Math.sin, Math.cos and Math.atan2 are computed (Taylor series with      *)
(* range reduction, CORDIC with the ECMAScript special cases for zero      *)
(* arguments), never looked up, so that the normalisation and the          *)
(* degenerate cases are decided by the arithmetic.                         *)
(***************************************************************************)
EXTENDS Integers, Sequences, FiniteSets, TLC

----------------------------------------------------------------------------
(* Fixed-point helpers *)

\* units per degree
DegScale == 10000

\* units per radian, and per 1.0 of a sine or cosine
RadScale == 10000

\* 360, 180 and 90 degrees in model units
Deg360 == 360 * DegScale
Deg180 == 180 * DegScale
Deg90 == 90 * DegScale

\* pi and pi/2 in units of 1/RadScale
PiRad == 31416
HalfPiRad == 15708

Abs(a) == IF a < 0 THEN -a ELSE a

\* a / b rounded to nearest, symmetric about zero (b > 0); the operand is
\* evaluated once, as the element n of a singleton set
RDiv(a, b) ==
    CHOOSE q \in {IF n >= 0 THEN (2 * n + b) \div (2 * b) ELSE -((2 * (-n) + b) \div (2 * b)) : n \in {a}} : TRUE

\* product of two fixed-point values
FMul(a, b) == RDiv(a * b, RadScale)

\* JavaScript's % : the remainder takes the sign of the dividend
JsRem(a, b) == CHOOSE r \in {IF n >= 0 THEN n % b ELSE -((-n) % b) : n \in {a}} : TRUE

\* degrees * (Math.PI / 180); pi/180 = 71/4068 to 9 digits
ToRadians(d) == RDiv(d * 71, 4068)

\* range reduction of an angle in radians into [-pi, pi]
ReducePi(r) == ((r + PiRad) % (2 * PiRad)) - PiRad

\* sin on [-pi/2, pi/2]: x - x^3/3! + x^5/5! - x^7/7! + x^9/9!
SinSeries(x) ==
    LET x2 == FMul(x, x)
        t3 == RDiv(FMul(x, x2), 6)
        t5 == RDiv(FMul(t3, x2), 20)
        t7 == RDiv(FMul(t5, x2), 42)
        t9 == RDiv(FMul(t7, x2), 72)
    IN  x - t3 + t5 - t7 + t9

\* cos on [-pi/2, pi/2]: 1 - x^2/2! + x^4/4! - x^6/6! + x^8/8! - x^10/10!
CosSeries(x) ==
    LET x2 == FMul(x, x)
        t2 == RDiv(x2, 2)
        t4 == RDiv(FMul(t2, x2), 12)
        t6 == RDiv(FMul(t4, x2), 30)
        t8 == RDiv(FMul(t6, x2), 56)
        t10 == RDiv(FMul(t8, x2), 90)
    IN  RadScale - t2 + t4 - t6 + t8 - t10

\* Math.sin
Sin(r) ==
    LET a == ReducePi(r)
    IN  IF a > HalfPiRad THEN SinSeries(PiRad - a)
        ELSE IF a < -HalfPiRad THEN SinSeries(-PiRad - a)
        ELSE SinSeries(a)

\* Math.cos
Cos(r) ==
    LET a == ReducePi(r)
    IN  IF a > HalfPiRad THEN -CosSeries(PiRad - a)
        ELSE IF a < -HalfPiRad THEN -CosSeries(-PiRad - a)
        ELSE CosSeries(a)

\* atan(2^-i) in degrees, i = 0 .. 15
AtanTable ==
    <<450000, 265651, 140362, 71250, 35763, 17899, 8952, 4476,
      2238, 1119, 560, 280, 140, 70, 35, 17>>

\* 2^i
Pow2(i) == 2^i

\* input magnification of the CORDIC iteration
CordicGain == 32768

\* one CORDIC micro-rotation of <<x, y, angle>> by atan(2^-(i-1)) towards the x axis
CordicStep(v, i) ==
    IF v[2] > 0
    THEN <<v[1] + v[2] \div Pow2(i - 1), v[2] - v[1] \div Pow2(i - 1), v[3] + AtanTable[i]>>
    ELSE <<v[1] - v[2] \div Pow2(i - 1), v[2] + v[1] \div Pow2(i - 1), v[3] - AtanTable[i]>>

\* CORDIC in vectoring mode: the angle of (x, y), x > 0, accumulated in acc
RECURSIVE Cordic(_, _, _, _)
Cordic(x, y, i, acc) ==
    IF i > Len(AtanTable) \/ y = 0 THEN acc
    ELSE CHOOSE angle \in {Cordic(w[1], w[2], i + 1, w[3]) : w \in {CordicStep(<<x, y, acc>>, i)}} : TRUE

\* the angle in [0, 90] degrees of a point of the open first quadrant
QuadrantAngle(ay, ax) == Cordic(ax * CordicGain, ay * CordicGain, 1, 0)

\* atan2 of the point p = <<y, x>> in degrees;
\* the zero arguments follow ECMAScript: atan2(0, x >= 0) = 0,
\* atan2(0, x < 0) = pi, atan2(y > 0, 0) = pi/2, atan2(y < 0, 0) = -pi/2
Atan2Point(p) ==
    LET y == p[1]
        x == p[2]
    IN  IF y = 0 THEN (IF x >= 0 THEN 0 ELSE Deg180)
        ELSE IF x = 0 THEN (IF y > 0 THEN Deg90 ELSE -Deg90)
        ELSE CHOOSE angle \in {IF x > 0 THEN (IF y > 0 THEN a ELSE -a)
                               ELSE (IF y > 0 THEN Deg180 - a ELSE -(Deg180 - a)) :
                               a \in {QuadrantAngle(Abs(y), Abs(x))}} : TRUE

\* Math.atan2(y, x) * (180 / Math.PI): a value in [-180, 180] degrees
Atan2Deg(y, x) == CHOOSE angle \in {Atan2Point(p) : p \in {<<y, x>>}} : TRUE

\* the normalisation without its + 360
Normalize360_NoOffset(a) == JsRem(a, Deg360)

\* "Normalize to 0-360": (a + 360) % 360
Normalize360(a) == JsRem(a + Deg360, Deg360)

----------------------------------------------------------------------------
(* Bounds and input sets *)

\* number of Refresh / Retry presses explored
MaxPresses == 2

\* the target coordinate
KAABA_LATITUDE == 214225
KAABA_LONGITUDE == 398262

LOCATION_STORAGE_KEY == "qibla_user_location"

\* Platform.OS
Platforms == {"ios", "android"}

\* position fixes Location.getCurrentPositionAsync may deliver
Fixes ==
    { [coords |-> [latitude |-> KAABA_LATITUDE, longitude |-> KAABA_LONGITUDE, accuracy |-> 5]],
      [coords |-> [latitude |-> 213891, longitude |-> 398579, accuracy |-> 20]],
      [coords |-> [latitude |-> -338688, longitude |-> 1512093, accuracy |-> 65]] }

\* observer coordinates for the bearing arithmetic: the poles, the equator,
\* the date line, the target itself, its antipode and the spec's fixtures
Latitudes == {-900000, -338688, -214225, 0, 213891, KAABA_LATITUDE, 407128, 900000}
Longitudes == {-1800000, -1401738, -740060, 0, 398262, 398579, 1512093, 1800000}
Coordinates == [latitude : Latitudes, longitude : Longitudes]

\* magnetometer samples: every sign pattern of (x, y), two values of z
AxisValues == {-30, 0, 17}
ZValues == {-40, 48}
Samples == [x : AxisValues, y : AxisValues, z : ZValues]
InitialSample == [x |-> 0, y |-> 0, z |-> 0]

\* null for location, error and accuracy
NoLocation == [isNull |-> TRUE]
NoError == "null"
NoAccuracy == -1

PermissionError == "Location permission is required to determine Qibla direction."
LocationError == "Could not determine your location. Please check your GPS settings."
CompassError == "Could not access compass. Please check your device settings."

\* a parsed cache entry that is an object without coords
NoCoords == [timestamp |-> 0]

HasCoords(loc) == "coords" \in DOMAIN loc

\* JavaScript truthiness of the location state
Truthy(loc) == loc # NoLocation

----------------------------------------------------------------------------
(* JSON text of the cache entry *)

\* AsyncStorage.getItem's result for a missing key
Absent == [text |-> "absent"]

\* JSON.stringify of a location object
JSONstringify(loc) ==
    [text |-> "object", latitude |-> loc.coords.latitude,
     longitude |-> loc.coords.longitude, accuracy |-> loc.coords.accuracy]

\* cache texts that were not written by getCurrentLocation
EmptyObjectText == [text |-> "{}"]
GarbageText == [text |-> "garbage"]

\* JSON.parse throws on this text
ParseThrows(t) == t.text \notin {"object", "{}"}

\* JSON.parse of a text it accepts
JSONparse(t) ==
    IF t.text = "object"
    THEN [coords |-> [latitude |-> t.latitude, longitude |-> t.longitude, accuracy |-> t.accuracy]]
    ELSE NoCoords

\* the cache as an earlier run of getCurrentLocation left it
SavedCache == {JSONstringify(f) : f \in Fixes}

\* the cache of a first run, or one this screen did not write
OtherCache == {Absent, EmptyObjectText, GarbageText}

----------------------------------------------------------------------------
(* The bearing engine *)

\* calculateQiblaDirection storing the raw atan2 angle
calculateQiblaDirection_Raw(coords) ==
    LET lat1 == ToRadians(coords.latitude)
        lon1 == ToRadians(coords.longitude)
        lat2 == ToRadians(KAABA_LATITUDE)
        lon2 == ToRadians(KAABA_LONGITUDE)
        y == FMul(Sin(lon2 - lon1), Cos(lat2))
        x == FMul(Cos(lat1), Sin(lat2)) - FMul(FMul(Sin(lat1), Cos(lat2)), Cos(lon2 - lon1))
    IN  Atan2Deg(y, x)

\* calculateQiblaDirection: the value handed to setQiblaDirection
calculateQiblaDirection(coords) ==
    LET lat1 == ToRadians(coords.latitude)
        lon1 == ToRadians(coords.longitude)
        lat2 == ToRadians(KAABA_LATITUDE)
        lon2 == ToRadians(KAABA_LONGITUDE)
        y == FMul(Sin(lon2 - lon1), Cos(lat2))
        x == FMul(Cos(lat1), Sin(lat2)) - FMul(FMul(Sin(lat1), Cos(lat2)), Cos(lon2 - lon1))
    IN  Normalize360(Atan2Deg(y, x))

\* calculateHeading storing the raw atan2 angle
calculateHeading_Raw(os, data) ==
    IF os = "ios" THEN Atan2Deg(data.y, data.x) ELSE Atan2Deg(data.x, data.y)

\* calculateHeading with the iOS formula on every platform
calculateHeading_OneFormula(os, data) == Normalize360(Atan2Deg(data.y, data.x))

\* calculateHeading with the z component folded into the horizontal field
calculateHeading_Tilt(os, data) ==
    IF os = "ios"
    THEN Normalize360(Atan2Deg(data.y, data.x + data.z))
    ELSE Normalize360(Atan2Deg(data.x, data.y + data.z))

\* calculateHeading: the value handed to setHeading
calculateHeading(os, data) ==
    IF os = "ios"
    THEN Normalize360(Atan2Deg(data.y, data.x))
    ELSE Normalize360(Atan2Deg(data.x, data.y))

----------------------------------------------------------------------------
(* State of the SolatQibla screen *)

VARIABLES
    platform,           \* Platform.OS
    mounted,            \* the screen is mounted
    storage,            \* AsyncStorage entry under LOCATION_STORAGE_KEY
    subscription,       \* useState: index of the subscription in removes, 0 for null
    magnetometerData,   \* useState
    qiblaDirection,     \* useState
    heading,            \* useState
    location,           \* useState
    accuracy,           \* useState
    loading,            \* useState
    error,              \* useState
    locationCleanup,    \* the subscription captured by the pending cleanup of useEffect([location])
    removes,            \* per subscription created by addListener: the number of remove() calls
    inflight,           \* the suspended calls of loadSavedLocation / getCurrentLocation
    presses             \* Refresh / Retry presses so far

\* TasbeehScreen
VARIABLES
    now,                \* new Date().getTime()
    tasbeehStorage,     \* AsyncStorage entries under TASBEEH_COUNTS_KEY and LAST_TASBEEH_KEY
    counts,             \* useState
    selectedAdhkar,     \* useState
    countViewVisible,   \* useState
    count,              \* useState
    category,           \* useState
    tasbeehLoading,     \* useState (loading)
    loadAwait,          \* the await loadData is suspended at
    savedCounts,        \* the local savedCounts of loadData
    saves,              \* the AsyncStorage.setItem calls of saveWithExpiry not yet settled
    removedItems,       \* history: the entries the removeItem of getWithExpiry has deleted
    countBefore,        \* history: the count before the current run of counter presses
    pressRun,           \* history: the counter presses since count was last set otherwise
    cleanup,            \* the call the running clearExpiredItems is suspended at, if any
    alert               \* the message of the Alert the screen has shown last, if any

\* a component calling useSidebar
VARIABLES
    sidebarProvider,    \* the nearest SidebarContext.Provider above the caller, if any
    sidebarOutcome      \* what the caller's last call of useSidebar did

\* QuranScreen
VARIABLES
    quranStorage,       \* AsyncStorage entry under BOOKMARK_STORAGE_KEY
    surahs,             \* useState
    selectedSurah,      \* useState
    quranLoading,       \* useState (loading)
    viewMode,           \* useState
    bookmark,           \* useState
    currentAyahIndex,   \* useState
    isScrolling,        \* useState
    initialRenderComplete,  \* useRef
    scrollTimer,        \* the 700 ms timer of useEffect([viewMode, selectedSurah]) is pending
    bookmarkSaves       \* the calls of saveBookmark suspended at their setItem

\* CustomTabBar
VARIABLES
    tabIndex,           \* state.index of the tab navigator
    tabEvent,           \* the event navigation.emit returned last
    tabPresses          \* history: tab presses so far

qiblaVars == <<platform, mounted, storage, subscription, magnetometerData, qiblaDirection,
               heading, location, accuracy, loading, error, locationCleanup, removes,
               inflight, presses>>

tasbeehVars == <<now, tasbeehStorage, counts, selectedAdhkar, countViewVisible, count,
                 category, tasbeehLoading, loadAwait, savedCounts, saves, removedItems,
                 countBefore, pressRun, cleanup, alert>>

sidebarVars == <<sidebarProvider, sidebarOutcome>>

quranVars == <<quranStorage, surahs, selectedSurah, quranLoading, viewMode, bookmark,
               currentAyahIndex, isScrolling, initialRenderComplete, scrollTimer, bookmarkSaves>>

tabVars == <<tabIndex, tabEvent, tabPresses>>

vars == <<qiblaVars, tasbeehVars, sidebarVars, quranVars, tabVars>>

\* the state of the components each screen leaves alone
outsideQibla == <<tasbeehVars, sidebarVars, quranVars, tabVars>>
outsideTasbeeh == <<qiblaVars, sidebarVars, quranVars, tabVars>>
outsideSidebar == <<qiblaVars, tasbeehVars, quranVars, tabVars>>
outsideQuran == <<qiblaVars, tasbeehVars, sidebarVars, tabVars>>

\* the component state that setState calls of an unmounted screen leave alone
screenState == <<subscription, magnetometerData, qiblaDirection, heading, location,
                 accuracy, loading, error, locationCleanup, removes>>

\* a suspended async call: the await it is parked on and the fix it holds
Op(stage, fix) == [stage |-> stage, fix |-> fix]

\* s without its i-th element
RemoveAt(s, i) == SubSeq(s, 1, i - 1) \o SubSeq(s, i + 1, Len(s))

\* the subscription captured by the cleanup of useEffect([]): the first
\* render's value of the subscription state
mountCleanup == 0

\* subscription.remove() on the captured subscription, if any
RemoveCaptured(rem, captured) ==
    IF captured # 0 THEN [rem EXCEPT ![captured] = @ + 1] ELSE rem

\* the listeners still registered with the Magnetometer
ActiveListeners == {i \in 1..Len(removes) : removes[i] = 0}

\* startMagnetometer, run by useEffect([location]) after the cleanup of the
\* previous run; listenerOk = FALSE when Magnetometer.addListener throws
startMagnetometer(rem, listenerOk) ==
    IF listenerOk
    THEN [removes |-> Append(rem, 0), subscription |-> Len(rem) + 1, error |-> FALSE]
    ELSE [removes |-> rem, subscription |-> subscription, error |-> TRUE]

\* useEffect([location]) on a render whose location is loc: the previous
\* cleanup runs with the subscription it captured, the new cleanup captures
\* the subscription state of this render
LocationEffect(loc, listenerOk) ==
    LET rem == RemoveCaptured(removes, locationCleanup)
        started == IF Truthy(loc) THEN startMagnetometer(rem, listenerOk)
                   ELSE [removes |-> rem, subscription |-> subscription, error |-> FALSE]
    IN  [removes |-> started.removes, subscription |-> started.subscription,
         error |-> started.error, cleanup |-> subscription]

\* the render after setLocation(loc) together with the other state updates
\* of the same handler, and the effects of that render
CommitLocation(loc, acc, qibla, load, err, listenerOk) ==
    IF mounted
    THEN LET eff == LocationEffect(loc, listenerOk)
         IN  /\ location' = loc
             /\ accuracy' = acc
             /\ qiblaDirection' = qibla
             /\ loading' = load
             /\ error' = IF eff.error THEN CompassError ELSE err
             /\ subscription' = eff.subscription
             /\ removes' = eff.removes
             /\ locationCleanup' = eff.cleanup
             /\ heading' = IF Truthy(loc) THEN calculateHeading(platform, magnetometerData)
                           ELSE heading
             /\ UNCHANGED magnetometerData
    ELSE UNCHANGED screenState

\* state updates of a handler that does not touch location
CommitStatus(load, err) ==
    IF mounted
    THEN /\ loading' = load
         /\ error' = err
         /\ UNCHANGED <<subscription, magnetometerData, qiblaDirection, heading, location,
                        accuracy, locationCleanup, removes>>
    ELSE UNCHANGED screenState

\* JavaScript null and undefined
Null == [isNull |-> TRUE]
Undefined == [isUndefined |-> TRUE]

\* the counts object {}
EmptyCounts == [id \in {} |-> 0]

\* loadData is not suspended
NoAwait == [key |-> "none", call |-> "none"]

\* clearExpiredItems is not running
CleanupIdle == [call |-> "none"]

\* no Alert has been shown
NoAlert == "none"

\* no SidebarContext.Provider above the caller; useSidebar not called yet
NoProvider == [provided |-> FALSE]
NotCalled == [called |-> FALSE]

\* the Qibla screen before it is opened
QiblaClosed ==
    /\ platform = "ios"
    /\ mounted = FALSE
    /\ storage = Absent
    /\ subscription = 0
    /\ magnetometerData = InitialSample
    /\ qiblaDirection = 0
    /\ heading = 0
    /\ location = NoLocation
    /\ accuracy = NoAccuracy
    /\ loading = TRUE
    /\ error = NoError
    /\ locationCleanup = 0
    /\ removes = <<>>
    /\ inflight = <<>>
    /\ presses = 0

\* the Tasbeeh screen before it is opened
TasbeehClosed ==
    /\ now = 0
    /\ tasbeehStorage = [key \in {"tasbeeh_counts", "last_tasbeeh"} |-> Absent]
    /\ counts = EmptyCounts
    /\ selectedAdhkar = Null
    /\ countViewVisible = FALSE
    /\ count = 0
    /\ category = "all"
    /\ tasbeehLoading = TRUE
    /\ loadAwait = NoAwait
    /\ savedCounts = Null
    /\ saves = <<>>
    /\ removedItems = {}
    /\ countBefore = 0
    /\ pressRun = 0
    /\ cleanup = CleanupIdle
    /\ alert = NoAlert

\* no component calling useSidebar is rendered
SidebarClosed ==
    /\ sidebarProvider = NoProvider
    /\ sidebarOutcome = NotCalled

\* the Quran screen before it is opened
QuranClosed ==
    /\ quranStorage = Absent
    /\ surahs = <<>>
    /\ selectedSurah = Null
    /\ quranLoading = TRUE
    /\ viewMode = "surah-list"
    /\ bookmark = Null
    /\ currentAyahIndex = 0
    /\ isScrolling = FALSE
    /\ initialRenderComplete = FALSE
    /\ scrollTimer = FALSE
    /\ bookmarkSaves = <<>>

\* the tab bar before a tab is pressed: the first tab is focused and
\* navigation.emit has not been called
TabsClosed ==
    /\ tabIndex = 0
    /\ tabEvent = [type |-> "none"]
    /\ tabPresses = 0

Init ==
    /\ TasbeehClosed
    /\ SidebarClosed
    /\ QuranClosed
    /\ TabsClosed
    /\ platform \in Platforms
    /\ mounted = TRUE
    /\ (storage \in SavedCache \/ storage \in OtherCache)
    /\ subscription = 0
    /\ magnetometerData = InitialSample
    /\ qiblaDirection = 0
    /\ heading = 0
    /\ location = NoLocation
    /\ accuracy = NoAccuracy
    /\ loading = TRUE
    /\ error = NoError
    /\ locationCleanup = 0
    /\ removes = <<>>
    /\ inflight = <<Op("getItem", NoLocation)>>
    /\ presses = 0

----------------------------------------------------------------------------
(* loadSavedLocation *)

\* loadSavedLocation that refreshes the position even after a cache hit
loadSavedLocation_AlwaysRefresh(i, rejected, listenerOk) ==
    /\ i \in 1..Len(inflight)
    /\ inflight[i].stage = "getItem"
    /\ UNCHANGED <<outsideQibla, platform, mounted, storage, presses>>
    /\ inflight' = [inflight EXCEPT ![i] = Op("permission", NoLocation)]
    /\ IF rejected \/ storage = Absent \/ ParseThrows(storage)
       THEN CommitStatus(TRUE, NoError)
       ELSE LET parsedLocation == JSONparse(storage)
            IN  IF HasCoords(parsedLocation)
                THEN CommitLocation(parsedLocation, accuracy,
                                    calculateQiblaDirection(parsedLocation.coords),
                                    TRUE, NoError, listenerOk)
                ELSE CommitLocation(parsedLocation, accuracy, qiblaDirection,
                                    TRUE, NoError, listenerOk)

\* AsyncStorage.getItem resolves (or rejects) and loadSavedLocation runs to
\* its end; a missing entry and every exception call getCurrentLocation,
\* which runs up to its first await
loadSavedLocation(i, rejected, listenerOk) ==
    /\ i \in 1..Len(inflight)
    /\ inflight[i].stage = "getItem"
    /\ UNCHANGED <<outsideQibla, platform, mounted, storage, presses>>
    /\ IF rejected \/ storage = Absent \/ ParseThrows(storage)
       THEN /\ inflight' = [inflight EXCEPT ![i] = Op("permission", NoLocation)]
            /\ CommitStatus(TRUE, NoError)
       ELSE LET parsedLocation == JSONparse(storage)
            IN  IF HasCoords(parsedLocation)
                THEN /\ inflight' = RemoveAt(inflight, i)
                     /\ CommitLocation(parsedLocation, accuracy,
                                       calculateQiblaDirection(parsedLocation.coords),
                                       FALSE, error, listenerOk)
                ELSE /\ inflight' = [inflight EXCEPT ![i] = Op("permission", NoLocation)]
                     /\ CommitLocation(parsedLocation, accuracy, qiblaDirection,
                                       TRUE, NoError, listenerOk)

----------------------------------------------------------------------------
(* getCurrentLocation *)

\* PressRefreshOrRetry without setError(null)
PressRefreshOrRetry_KeepError ==
    /\ mounted
    /\ ~loading
    /\ presses < MaxPresses
    /\ presses' = presses + 1
    /\ inflight' = Append(inflight, Op("permission", NoLocation))
    /\ CommitStatus(TRUE, error)
    /\ UNCHANGED <<outsideQibla, platform, mounted, storage>>

\* PressRefreshOrRetry without setLoading(true)
PressRefreshOrRetry_NoLoading ==
    /\ mounted
    /\ ~loading
    /\ presses < MaxPresses
    /\ presses' = presses + 1
    /\ inflight' = Append(inflight, Op("permission", NoLocation))
    /\ CommitStatus(loading, NoError)
    /\ UNCHANGED <<outsideQibla, platform, mounted, storage>>

\* the Refresh button of the compass view and the Retry button of the error
\* view: getCurrentLocation up to its first await
PressRefreshOrRetry ==
    /\ mounted
    /\ ~loading
    /\ presses < MaxPresses
    /\ presses' = presses + 1
    /\ inflight' = Append(inflight, Op("permission", NoLocation))
    /\ CommitStatus(TRUE, NoError)
    /\ UNCHANGED <<outsideQibla, platform, mounted, storage>>

\* PermissionResult returning on a denied permission without setLoading(false)
PermissionResult_DeniedKeepsLoading(i, outcome) ==
    /\ i \in 1..Len(inflight)
    /\ inflight[i].stage = "permission"
    /\ UNCHANGED <<outsideQibla, platform, mounted, storage, presses>>
    /\ IF outcome = "granted"
       THEN /\ inflight' = [inflight EXCEPT ![i] = Op("position", NoLocation)]
            /\ UNCHANGED screenState
       ELSE /\ inflight' = RemoveAt(inflight, i)
            /\ CommitStatus(loading, PermissionError)

\* Location.requestForegroundPermissionsAsync resolves
PermissionResult(i, outcome) ==
    /\ i \in 1..Len(inflight)
    /\ inflight[i].stage = "permission"
    /\ UNCHANGED <<outsideQibla, platform, mounted, storage, presses>>
    /\ IF outcome = "granted"
       THEN /\ inflight' = [inflight EXCEPT ![i] = Op("position", NoLocation)]
            /\ UNCHANGED screenState
       ELSE /\ inflight' = RemoveAt(inflight, i)
            /\ CommitStatus(FALSE, PermissionError)

\* Location.getCurrentPositionAsync resolves with a fix; AsyncStorage.setItem
\* is called with its JSON text
PositionFix(i, fix) ==
    /\ i \in 1..Len(inflight)
    /\ inflight[i].stage = "position"
    /\ inflight' = [inflight EXCEPT ![i] = Op("setItem", fix)]
    /\ UNCHANGED <<outsideQibla, platform, mounted, storage, presses>>
    /\ UNCHANGED screenState

\* AsyncStorage.setItem stores the JSON text of the fix; the continuation of
\* getCurrentLocation is queued and runs in a later step
CacheWrite(i) ==
    /\ i \in 1..Len(inflight)
    /\ inflight[i].stage = "setItem"
    /\ storage' = JSONstringify(inflight[i].fix)
    /\ inflight' = [inflight EXCEPT ![i] = Op("written", inflight[i].fix)]
    /\ UNCHANGED <<outsideQibla, platform, mounted, presses>>
    /\ UNCHANGED screenState

\* LocationSaved without the call of calculateQiblaDirection
LocationSaved_KeepBearing(i, listenerOk) ==
    /\ i \in 1..Len(inflight)
    /\ inflight[i].stage = "written"
    /\ inflight' = RemoveAt(inflight, i)
    /\ CommitLocation(inflight[i].fix, inflight[i].fix.coords.accuracy,
                      qiblaDirection, FALSE, error, listenerOk)
    /\ UNCHANGED <<outsideQibla, platform, mounted, storage, presses>>

\* the continuation of the await of AsyncStorage.setItem runs: the fix
\* becomes the location
LocationSaved(i, listenerOk) ==
    /\ i \in 1..Len(inflight)
    /\ inflight[i].stage = "written"
    /\ inflight' = RemoveAt(inflight, i)
    /\ CommitLocation(inflight[i].fix, inflight[i].fix.coords.accuracy,
                      calculateQiblaDirection(inflight[i].fix.coords),
                      FALSE, error, listenerOk)
    /\ UNCHANGED <<outsideQibla, platform, mounted, storage, presses>>

\* LocationFailure whose catch block leaves loading alone
LocationFailure_KeepLoading(i) ==
    /\ i \in 1..Len(inflight)
    /\ inflight[i].stage \in {"permission", "position", "setItem"}
    /\ inflight' = RemoveAt(inflight, i)
    /\ CommitStatus(loading, LocationError)
    /\ UNCHANGED <<outsideQibla, platform, mounted, storage, presses>>

\* LocationFailure of a getCurrentLocation that calls setLocation before the
\* cache write
LocationFailure_AfterSetLocation(i) ==
    /\ i \in 1..Len(inflight)
    /\ inflight[i].stage \in {"permission", "position", "setItem"}
    /\ inflight' = RemoveAt(inflight, i)
    /\ IF inflight[i].stage = "setItem"
       THEN CommitLocation(inflight[i].fix, inflight[i].fix.coords.accuracy,
                           calculateQiblaDirection(inflight[i].fix.coords),
                           FALSE, LocationError, TRUE)
       ELSE CommitStatus(FALSE, LocationError)
    /\ UNCHANGED <<outsideQibla, platform, mounted, storage, presses>>

\* the catch block of getCurrentLocation: the permission request, the
\* position request or the cache write rejects
LocationFailure(i) ==
    /\ i \in 1..Len(inflight)
    /\ inflight[i].stage \in {"permission", "position", "setItem"}
    /\ inflight' = RemoveAt(inflight, i)
    /\ CommitStatus(FALSE, LocationError)
    /\ UNCHANGED <<outsideQibla, platform, mounted, storage, presses>>

----------------------------------------------------------------------------
(* Magnetometer samples and unmount *)

\* MagnetometerSample whose effect also turns the stored bearing by the heading
MagnetometerSample_Rebearing(data) ==
    /\ mounted
    /\ ActiveListeners # {}
    /\ magnetometerData' = data
    /\ heading' = IF Truthy(location) THEN calculateHeading(platform, data) ELSE heading
    /\ qiblaDirection' = Normalize360_NoOffset(qiblaDirection + Deg360 - heading')
    /\ UNCHANGED <<outsideQibla, platform, mounted, storage, subscription, location,
                   accuracy, loading, error, locationCleanup, removes, inflight, presses>>

\* MagnetometerSample with a low-pass filter over the previous heading
MagnetometerSample_Smoothed(data) ==
    /\ mounted
    /\ ActiveListeners # {}
    /\ magnetometerData' = data
    /\ heading' = IF Truthy(location)
                  THEN (heading + calculateHeading(platform, data)) \div 2
                  ELSE heading
    /\ UNCHANGED <<outsideQibla, platform, mounted, storage, subscription, qiblaDirection, location,
                   accuracy, loading, error, locationCleanup, removes, inflight, presses>>

\* a registered listener delivers a sample: setMagnetometerData, then the
\* useEffect([magnetometerData, location]) of the next render
MagnetometerSample(data) ==
    /\ mounted
    /\ ActiveListeners # {}
    /\ magnetometerData' = data
    /\ heading' = IF Truthy(location) THEN calculateHeading(platform, data) ELSE heading
    /\ UNCHANGED <<outsideQibla, platform, mounted, storage, subscription, qiblaDirection, location,
                   accuracy, loading, error, locationCleanup, removes, inflight, presses>>

\* the screen is unmounted: the cleanups of both effects run
Unmount ==
    /\ mounted
    /\ mounted' = FALSE
    /\ removes' = RemoveCaptured(RemoveCaptured(removes, locationCleanup), mountCleanup)
    /\ UNCHANGED <<outsideQibla, platform, storage, subscription, magnetometerData, qiblaDirection,
                   heading, location, accuracy, loading, error, locationCleanup,
                   inflight, presses>>

Next ==
    \/ \E i \in 1..Len(inflight), rejected \in BOOLEAN, listenerOk \in BOOLEAN :
           loadSavedLocation(i, rejected, listenerOk)
    \/ PressRefreshOrRetry
    \/ \E i \in 1..Len(inflight), outcome \in {"granted", "denied"} :
           PermissionResult(i, outcome)
    \/ \E i \in 1..Len(inflight), fix \in Fixes : PositionFix(i, fix)
    \/ \E i \in 1..Len(inflight) : CacheWrite(i)
    \/ \E i \in 1..Len(inflight), listenerOk \in BOOLEAN : LocationSaved(i, listenerOk)
    \/ \E i \in 1..Len(inflight) : LocationFailure(i)
    \/ \E data \in Samples : MagnetometerSample(data)
    \/ Unmount

Spec == Init /\ [][Next]_vars

\* the view the render function returns
View == IF loading THEN "loading" ELSE IF error # NoError THEN "error" ELSE "compass"

\* needleRotation normalised into [0, 360)
needleRotation_Normalized == Normalize360(qiblaDirection - heading)

\* the rotation transforms of the compass view
compassRotation == -heading
needleRotation == qiblaDirection - heading

----------------------------------------------------------------------------
(* Tasbeeh screen: storage with expiry *)

\* counter value up to which presses are explored
MaxCount == 2

\* clock steps explored
MaxTicks == 1

\* AsyncStorage.setItem calls pending at a time
MaxSaves == 1

TASBEEH_COUNTS_KEY == "tasbeeh_counts"
LAST_TASBEEH_KEY == "last_tasbeeh"
TasbeehKeys == {TASBEEH_COUNTS_KEY, LAST_TASBEEH_KEY}

\* 30 minutes in milliseconds
STORAGE_EXPIRY_TIME == 30 * 60 * 1000

\* the clock advances in steps of the expiry time
TickMs == STORAGE_EXPIRY_TIME

\* the entries of tasbeehData.adhkar: the fields the screen logic reads
adhkarData ==
    { [id |-> "subhanallah", category |-> "daily"],
      [id |-> "ayatul_kursi", category |-> "protection"] }

AdhkarIds == {item.id : item \in adhkarData}

\* the ids of the category tabs that are pressed
Categories == {"all", "daily"}

\* JSON.stringify({ value, timestamp })
StringifyItem(value, timestamp) == [text |-> "item", value |-> value, timestamp |-> timestamp]

\* JSON.parse throws on this text
ItemParseThrows(t) == t.text # "item"

\* JSON.parse of the text of an item
ParseItem(t) == [value |-> t.value, timestamp |-> t.timestamp]

\* obj?.[id] || 0
CountOf(obj, id) == IF obj # Null /\ id \in DOMAIN obj THEN obj[id] ELSE 0

\* { ...obj, [id]: n }
WithCount(obj, id, n) == [i \in DOMAIN obj \cup {id} |-> IF i = id THEN n ELSE obj[i]]

\* getWithExpiry treating an item aged exactly STORAGE_EXPIRY_TIME as expired
getWithExpiry_ExpiresAtLimit(itemStr, rejected, t) ==
    IF rejected \/ itemStr = Absent \/ ItemParseThrows(itemStr)
    THEN [value |-> Null, remove |-> FALSE]
    ELSE LET item == ParseItem(itemStr)
         IN  IF t - item.timestamp >= STORAGE_EXPIRY_TIME
             THEN [value |-> Null, remove |-> TRUE]
             ELSE [value |-> item.value, remove |-> FALSE]

\* getWithExpiry from the point where AsyncStorage.getItem resolved with
\* itemStr, or rejected, at time t: the value it returns, and whether it
\* awaits AsyncStorage.removeItem before returning
getWithExpiry(itemStr, rejected, t) ==
    IF rejected \/ itemStr = Absent \/ ItemParseThrows(itemStr)
    THEN [value |-> Null, remove |-> FALSE]
    ELSE LET item == ParseItem(itemStr)
         IN  IF t - item.timestamp > STORAGE_EXPIRY_TIME
             THEN [value |-> Null, remove |-> TRUE]
             ELSE [value |-> item.value, remove |-> FALSE]

\* saveWithExpiry(key, value) up to its await of AsyncStorage.setItem
saveWithExpiry(key, value) == [key |-> key, text |-> StringifyItem(value, now)]

\* the counts object and the timestamps an earlier session may have stored
StoredCounts == { [id \in AdhkarIds |-> IF id = "subhanallah" THEN 1 ELSE 2] }
\* the screen is opened at time 0 or later: the stored items are read at the
\* ages 0, 30 and 60 minutes or more
StoredTimestamps == {-TickMs, 0}

\* what the two keys may hold when the screen is opened
CountsEntries ==
    {Absent, GarbageText} \cup {StringifyItem(c, ts) : c \in StoredCounts, ts \in StoredTimestamps}
LastEntries ==
    {Absent, GarbageText} \cup {StringifyItem(a, ts) : a \in adhkarData, ts \in StoredTimestamps}

\* the screen at its first render: useState initial values, loadData
\* suspended at the getItem of its first getWithExpiry
TasbeehInit ==
    /\ QiblaClosed
    /\ SidebarClosed
    /\ QuranClosed
    /\ TabsClosed
    /\ now \in {k * TickMs : k \in 0..MaxTicks}
    /\ tasbeehStorage \in [TasbeehKeys -> CountsEntries \cup LastEntries]
    /\ tasbeehStorage[TASBEEH_COUNTS_KEY] \in CountsEntries
    /\ tasbeehStorage[LAST_TASBEEH_KEY] \in LastEntries
    /\ counts = EmptyCounts
    /\ selectedAdhkar = Null
    /\ countViewVisible = FALSE
    /\ count = 0
    /\ category = "all"
    /\ tasbeehLoading = TRUE
    /\ loadAwait = [key |-> TASBEEH_COUNTS_KEY, call |-> "getItem"]
    /\ savedCounts = Null
    /\ saves = <<>>
    /\ removedItems = {}
    /\ countBefore = 0
    /\ pressRun = 0
    /\ cleanup = CleanupIdle
    /\ alert = NoAlert

\* the view the render function of TasbeehScreen returns
TasbeehView ==
    IF tasbeehLoading THEN "loading"
    ELSE IF countViewVisible /\ selectedAdhkar # Null THEN "counter"
    ELSE "list"

\* filterAdhkarByCategory
filterAdhkarByCategory ==
    IF category = "all" THEN adhkarData ELSE {item \in adhkarData : item.category = category}

----------------------------------------------------------------------------
(* Tasbeeh screen: loadData *)

\* loadData taking the count from the counts state of the first render
LoadContinues_StaleCounts(key, value) ==
    IF key = TASBEEH_COUNTS_KEY
    THEN /\ savedCounts' = value
         /\ counts' = IF value # Null THEN value ELSE counts
         /\ loadAwait' = [key |-> LAST_TASBEEH_KEY, call |-> "getItem"]
         /\ UNCHANGED <<selectedAdhkar, countViewVisible, count, tasbeehLoading, saves,
                        countBefore, pressRun>>
    ELSE /\ IF value # Null
            THEN /\ selectedAdhkar' = value
                 /\ countViewVisible' = TRUE
                 /\ count' = CountOf(EmptyCounts, value.id)
                 /\ countBefore' = CountOf(savedCounts, value.id)
                 /\ saves' = Append(saves, saveWithExpiry(TASBEEH_COUNTS_KEY, counts))
            ELSE UNCHANGED <<selectedAdhkar, countViewVisible, count, countBefore, saves>>
         /\ tasbeehLoading' = FALSE
         /\ loadAwait' = NoAwait
         /\ savedCounts' = Null
         /\ UNCHANGED <<counts, pressRun>>

\* loadData continues after getWithExpiry(key) returned value; after the
\* second one it runs to its end, and the effect on [counts, loading] calls
\* saveCounts when an adhkar is selected
LoadContinues(key, value) ==
    IF key = TASBEEH_COUNTS_KEY
    THEN /\ savedCounts' = value
         /\ counts' = IF value # Null THEN value ELSE counts
         /\ loadAwait' = [key |-> LAST_TASBEEH_KEY, call |-> "getItem"]
         /\ UNCHANGED <<selectedAdhkar, countViewVisible, count, tasbeehLoading, saves,
                        countBefore, pressRun>>
    ELSE /\ IF value # Null
            THEN /\ selectedAdhkar' = value
                 /\ countViewVisible' = TRUE
                 /\ count' = CountOf(savedCounts, value.id)
                 /\ countBefore' = CountOf(savedCounts, value.id)
                 /\ saves' = Append(saves, saveWithExpiry(TASBEEH_COUNTS_KEY, counts))
            ELSE UNCHANGED <<selectedAdhkar, countViewVisible, count, countBefore, saves>>
         /\ tasbeehLoading' = FALSE
         /\ loadAwait' = NoAwait
         /\ savedCounts' = Null
         /\ UNCHANGED <<counts, pressRun>>

\* AsyncStorage.getItem of the pending getWithExpiry resolves or rejects
GetItemResolves(rejected) ==
    /\ loadAwait.call = "getItem"
    /\ LET result == getWithExpiry(tasbeehStorage[loadAwait.key], rejected, now)
       IN  IF result.remove
           THEN /\ loadAwait' = [loadAwait EXCEPT !.call = "removeItem"]
                /\ UNCHANGED <<counts, selectedAdhkar, countViewVisible, count, tasbeehLoading,
                               savedCounts, saves, countBefore, pressRun>>
           ELSE LoadContinues(loadAwait.key, result.value)
    /\ UNCHANGED <<outsideTasbeeh, cleanup, alert, removedItems, now, tasbeehStorage, category>>

\* AsyncStorage.removeItem of the pending getWithExpiry resolves or rejects:
\* getWithExpiry returns null either way
RemoveItemResolves(removed) ==
    /\ loadAwait.call = "removeItem"
    /\ tasbeehStorage' = IF removed THEN [tasbeehStorage EXCEPT ![loadAwait.key] = Absent]
                         ELSE tasbeehStorage
    /\ removedItems' = IF removed /\ tasbeehStorage[loadAwait.key] # Absent
                       THEN removedItems \cup {[key |-> loadAwait.key,
                                                text |-> tasbeehStorage[loadAwait.key]]}
                       ELSE removedItems
    /\ LoadContinues(loadAwait.key, Null)
    /\ UNCHANGED <<outsideTasbeeh, cleanup, alert, now, category>>

----------------------------------------------------------------------------
(* Tasbeeh screen: handlers *)

\* handleSelectAdhkar that keeps the count of the adhkar shown before
handleSelectAdhkar_KeepCount(item) ==
    /\ TasbeehView = "list"
    /\ item \in filterAdhkarByCategory
    /\ Len(saves) < MaxSaves
    /\ selectedAdhkar' = item
    /\ countBefore' = count
    /\ pressRun' = 0
    /\ countViewVisible' = TRUE
    /\ saves' = Append(saves, saveWithExpiry(LAST_TASBEEH_KEY, item))
    /\ UNCHANGED <<outsideTasbeeh, cleanup, alert, removedItems, now, tasbeehStorage, counts, count, category,
                   tasbeehLoading, loadAwait, savedCounts>>

\* an adhkar item of the list is pressed
handleSelectAdhkar(item) ==
    /\ TasbeehView = "list"
    /\ item \in filterAdhkarByCategory
    /\ Len(saves) < MaxSaves
    /\ selectedAdhkar' = item
    /\ count' = CountOf(counts, item.id)
    /\ countBefore' = CountOf(counts, item.id)
    /\ pressRun' = 0
    /\ countViewVisible' = TRUE
    /\ saves' = Append(saves, saveWithExpiry(LAST_TASBEEH_KEY, item))
    /\ UNCHANGED <<outsideTasbeeh, cleanup, alert, removedItems, now, tasbeehStorage, counts, category, tasbeehLoading,
                   loadAwait, savedCounts>>

\* handleCounterPress building the new counts object without the spread of counts
handleCounterPress_DropOthers ==
    /\ TasbeehView = "counter"
    /\ count < MaxCount
    /\ Len(saves) < MaxSaves
    /\ count' = count + 1
    /\ counts' = WithCount(EmptyCounts, selectedAdhkar.id, count + 1)
    /\ pressRun' = pressRun + 1
    /\ saves' = Append(saves, saveWithExpiry(TASBEEH_COUNTS_KEY, counts'))
    /\ UNCHANGED <<outsideTasbeeh, cleanup, alert, removedItems, now, tasbeehStorage, selectedAdhkar, countViewVisible,
                   category, tasbeehLoading, loadAwait, savedCounts, countBefore>>

\* the counter button is pressed; the effect on [counts, loading] of the next
\* render calls saveCounts
handleCounterPress ==
    /\ TasbeehView = "counter"
    /\ count < MaxCount
    /\ Len(saves) < MaxSaves
    /\ count' = count + 1
    /\ counts' = WithCount(counts, selectedAdhkar.id, count + 1)
    /\ pressRun' = pressRun + 1
    /\ saves' = Append(saves, saveWithExpiry(TASBEEH_COUNTS_KEY, counts'))
    /\ UNCHANGED <<outsideTasbeeh, cleanup, alert, removedItems, now, tasbeehStorage, selectedAdhkar, countViewVisible,
                   category, tasbeehLoading, loadAwait, savedCounts, countBefore>>

\* handleReset that clears the whole counts object
handleReset_ClearAll(selected, c, cs) ==
    IF selected = Null
    THEN [count |-> c, counts |-> cs, rendered |-> FALSE]
    ELSE [count |-> 0, counts |-> WithCount(EmptyCounts, selected.id, 0), rendered |-> TRUE]

\* handleReset called in a render whose state is selected, c (count) and cs
\* (counts): the state it leaves, and whether it called a setter, so that the
\* screen renders again and its effect on [counts, loading] runs
handleReset(selected, c, cs) ==
    IF selected = Null
    THEN [count |-> c, counts |-> cs, rendered |-> FALSE]
    ELSE [count |-> 0, counts |-> WithCount(cs, selected.id, 0), rendered |-> TRUE]

\* the reset button of the counter view is pressed; the effect on
\* [counts, loading] of the next render calls saveCounts
PressReset ==
    /\ TasbeehView = "counter"
    /\ Len(saves) < MaxSaves
    /\ LET reset == handleReset(selectedAdhkar, count, counts)
       IN  /\ count' = reset.count
           /\ counts' = reset.counts
           /\ saves' = IF reset.rendered /\ selectedAdhkar # Null /\ ~tasbeehLoading
                       THEN Append(saves, saveWithExpiry(TASBEEH_COUNTS_KEY, reset.counts))
                       ELSE saves
    /\ countBefore' = 0
    /\ pressRun' = 0
    /\ UNCHANGED <<outsideTasbeeh, cleanup, alert, removedItems, now, tasbeehStorage, selectedAdhkar, countViewVisible,
                   category, tasbeehLoading, loadAwait, savedCounts>>

\* the back button of the counter view is pressed
handleBack ==
    /\ TasbeehView = "counter"
    /\ countViewVisible' = FALSE
    /\ UNCHANGED <<outsideTasbeeh, cleanup, alert, removedItems, now, tasbeehStorage, counts, selectedAdhkar, count, category,
                   tasbeehLoading, loadAwait, savedCounts, saves, countBefore, pressRun>>

\* a category tab of the list is pressed
PressCategoryTab(cat) ==
    /\ TasbeehView = "list"
    /\ category' = cat
    /\ UNCHANGED <<outsideTasbeeh, cleanup, alert, removedItems, now, tasbeehStorage, counts, selectedAdhkar, countViewVisible,
                   count, tasbeehLoading, loadAwait, savedCounts, saves, countBefore, pressRun>>

\* saveWithExpiry from the point where its AsyncStorage.setItem settled: its
\* try / catch logs a rejection, and the promise it returns resolves
saveWithExpirySettles(stored) == [logged |-> ~stored, rejected |-> FALSE]

SaveError == "Failed to save your progress"

\* the caller of saveWithExpiry(key, ...) continues: the catch of saveCounts
\* alerts, the catch of saveLastTasbeeh logs
SaveContinues(key, outcome, shown) ==
    IF outcome.rejected /\ key = TASBEEH_COUNTS_KEY THEN SaveError ELSE shown

\* the oldest pending AsyncStorage.setItem stores its text or rejects, and
\* saveWithExpiry and its caller run to their ends; AsyncStorage runs the
\* calls in the order they were made, so a call of clearExpiredItems made
\* earlier runs first
SetItemSettles(stored) ==
    /\ saves # <<>>
    /\ cleanup.call \in {"getItem", "removeItem"} => cleanup.ahead > 0
    /\ tasbeehStorage' = IF stored THEN [tasbeehStorage EXCEPT ![Head(saves).key] = Head(saves).text]
                         ELSE tasbeehStorage
    /\ saves' = Tail(saves)
    /\ cleanup' = IF cleanup.call \in {"getItem", "removeItem"}
                  THEN [cleanup EXCEPT !.ahead = @ - 1]
                  ELSE cleanup
    /\ alert' = SaveContinues(Head(saves).key, saveWithExpirySettles(stored), alert)
    /\ UNCHANGED <<outsideTasbeeh, removedItems, now, counts, selectedAdhkar, countViewVisible, count, category,
                   tasbeehLoading, loadAwait, savedCounts, countBefore, pressRun>>

\* time passes
Tick ==
    /\ now < MaxTicks * TickMs
    /\ now' = now + TickMs
    /\ UNCHANGED <<outsideTasbeeh, cleanup, alert, removedItems, tasbeehStorage, counts, selectedAdhkar, countViewVisible, count,
                   category, tasbeehLoading, loadAwait, savedCounts, saves, countBefore, pressRun>>

TasbeehNext ==
    \/ \E rejected \in BOOLEAN : GetItemResolves(rejected)
    \/ \E removed \in BOOLEAN : RemoveItemResolves(removed)
    \/ \E item \in adhkarData : handleSelectAdhkar(item)
    \/ handleCounterPress
    \/ PressReset
    \/ handleBack
    \/ \E cat \in Categories : PressCategoryTab(cat)
    \/ \E stored \in BOOLEAN : SetItemSettles(stored)
    \/ Tick

TasbeehSpec == TasbeehInit /\ [][TasbeehNext]_vars

\* the screen while loadData runs: the view is the loading view, which
\* offers no handler, and no saveWithExpiry has been called
LoadNext ==
    \/ \E rejected \in BOOLEAN : GetItemResolves(rejected)
    \/ \E removed \in BOOLEAN : RemoveItemResolves(removed)
    \/ tasbeehLoading /\ Tick

LoadSpec == TasbeehInit /\ [][LoadNext]_vars

----------------------------------------------------------------------------
(* Tasbeeh screen: the periodic clearExpiredItems *)

\* the state of the component, which clearExpiredItems never touches
tasbeehState == <<counts, selectedAdhkar, countViewVisible, count, category, tasbeehLoading,
                  loadAwait, savedCounts, countBefore, pressRun, alert>>

\* AsyncStorage.getItem rejected
Rejected == [text |-> "rejected"]

\* clearExpiredItems calls AsyncStorage.getItem for the first of keys
CleanupGet(keys, t) == [call |-> "getItem", keys |-> keys, now |-> t, ahead |-> Len(saves)]

\* clearExpiredItems goes on to the key after the first of keys, or returns
CleanupNextKey(keys, t) ==
    IF Tail(keys) = <<>> THEN CleanupIdle ELSE CleanupGet(Tail(keys), t)

\* the expiry test of clearExpiredItems, with the time it read when it started
Expired(item, t) == t - item.timestamp > STORAGE_EXPIRY_TIME

\* the callback of setInterval runs clearExpiredItems up to its first await;
\* the timer is set when loadData is started and fires 5 minutes later, after
\* the storage reads of loadData
IntervalFires ==
    /\ cleanup = CleanupIdle
    /\ loadAwait = NoAwait
    /\ cleanup' = CleanupGet(<<TASBEEH_COUNTS_KEY, LAST_TASBEEH_KEY>>, now)
    /\ UNCHANGED <<outsideTasbeeh, tasbeehState, now, tasbeehStorage, saves, removedItems>>

\* AsyncStorage runs the getItem of clearExpiredItems
CleanupGetItem(rejected) ==
    /\ cleanup.call = "getItem"
    /\ cleanup.ahead = 0
    /\ cleanup' = [call |-> "gotItem", keys |-> cleanup.keys, now |-> cleanup.now,
                   item |-> IF rejected THEN Rejected ELSE tasbeehStorage[Head(cleanup.keys)]]
    /\ UNCHANGED <<outsideTasbeeh, tasbeehState, now, tasbeehStorage, saves, removedItems>>

\* clearExpiredItems continues with the result of getItem: a rejection and a
\* text JSON.parse rejects end the loop in the catch, an expired item is
\* handed to AsyncStorage.removeItem
CleanupContinues ==
    /\ cleanup.call = "gotItem"
    /\ cleanup' =
          IF cleanup.item = Rejected THEN CleanupIdle
          ELSE IF cleanup.item = Absent THEN CleanupNextKey(cleanup.keys, cleanup.now)
          ELSE IF ItemParseThrows(cleanup.item) THEN CleanupIdle
          ELSE IF Expired(ParseItem(cleanup.item), cleanup.now)
               THEN [call |-> "removeItem", keys |-> cleanup.keys, now |-> cleanup.now,
                     ahead |-> Len(saves)]
               ELSE CleanupNextKey(cleanup.keys, cleanup.now)
    /\ UNCHANGED <<outsideTasbeeh, tasbeehState, now, tasbeehStorage, saves, removedItems>>

\* AsyncStorage runs the removeItem of clearExpiredItems, which goes on to
\* the next key, or into its catch when the call rejected
CleanupRemoveItem(removed) ==
    /\ cleanup.call = "removeItem"
    /\ cleanup.ahead = 0
    /\ tasbeehStorage' = IF removed THEN [tasbeehStorage EXCEPT ![Head(cleanup.keys)] = Absent]
                         ELSE tasbeehStorage
    /\ cleanup' = IF removed THEN CleanupNextKey(cleanup.keys, cleanup.now) ELSE CleanupIdle
    /\ UNCHANGED <<outsideTasbeeh, tasbeehState, now, saves, removedItems>>

\* the screen with its interval timer
CleanupNext ==
    \/ \E rejected \in BOOLEAN : GetItemResolves(rejected)
    \/ \E removed \in BOOLEAN : RemoveItemResolves(removed)
    \/ \E item \in adhkarData : handleSelectAdhkar(item)
    \/ handleCounterPress
    \/ PressReset
    \/ handleBack
    \/ \E stored \in BOOLEAN : SetItemSettles(stored)
    \/ Tick
    \/ IntervalFires
    \/ \E rejected \in BOOLEAN : CleanupGetItem(rejected)
    \/ CleanupContinues
    \/ \E removed \in BOOLEAN : CleanupRemoveItem(removed)

CleanupSpec == TasbeehInit /\ [][CleanupNext]_vars

----------------------------------------------------------------------------
(* SidebarContext *)

\* identities of the toggleSidebar closures a provider may pass
ToggleClosures == 1..5

\* the values of type SidebarContextType
SidebarContexts == [toggleSidebar : ToggleClosures, sidebarVisible : BOOLEAN]

\* a SidebarContext.Provider with this value prop
Provided(value) == [provided |-> TRUE, value |-> value]

\* useContext(SidebarContext): the value of the nearest provider, or the
\* default value given to createContext
useContext(provider) == IF provider.provided THEN provider.value ELSE Undefined

\* what a call of useSidebar does
Threw(message) == [called |-> TRUE, threw |-> TRUE, message |-> message]
Returned(value) == [called |-> TRUE, threw |-> FALSE, value |-> value]

SidebarError == "useSidebar must be used within a SidebarProvider"

\* useSidebar without its check of the context
useSidebar_Unchecked(provider) == Returned(useContext(provider))

\* useSidebar called below the given provider
useSidebar(provider) ==
    LET context == useContext(provider)
    IN  IF context \in {Undefined, Null} THEN Threw(SidebarError) ELSE Returned(context)

\* a provider is rendered above the caller, or re-rendered with a new value
ProviderRenders(value) ==
    /\ sidebarProvider' = Provided(value)
    /\ UNCHANGED <<outsideSidebar, sidebarOutcome>>

\* the provider above the caller is removed
ProviderUnmounts ==
    /\ sidebarProvider # NoProvider
    /\ sidebarProvider' = NoProvider
    /\ UNCHANGED <<outsideSidebar, sidebarOutcome>>

\* the caller renders and calls useSidebar
CallerRenders ==
    /\ sidebarOutcome' = useSidebar(sidebarProvider)
    /\ UNCHANGED <<outsideSidebar, sidebarProvider>>

SidebarInit ==
    /\ QiblaClosed
    /\ TasbeehClosed
    /\ SidebarClosed
    /\ QuranClosed
    /\ TabsClosed

SidebarNext ==
    \/ \E value \in SidebarContexts \cup {Undefined} : ProviderRenders(value)
    \/ ProviderUnmounts
    \/ CallerRenders

SidebarSpec == SidebarInit /\ [][SidebarNext]_vars

----------------------------------------------------------------------------
(* Quran screen *)

\* quranData.surahs: the name and the number of ayahs of each surah
quranData ==
    << [name |-> "Al-Fatihah", ayahs |-> 3], [name |-> "Al-Ikhlas", ayahs |-> 2] >>

\* list[i] of a JavaScript array (indices from 0), undefined out of range
SurahAt(list, i) == IF i \in 0..(Len(list) - 1) THEN list[i + 1] ELSE Undefined

\* list.findIndex(s => s === surah)
FindIndex(list, surah) ==
    IF \E i \in 1..Len(list) : list[i] = surah
    THEN (CHOOSE i \in 1..Len(list) :
              list[i] = surah /\ \A j \in 1..(i - 1) : list[j] # surah) - 1
    ELSE -1

\* the bookmarkData object of saveBookmark(surahIndex, ayahIndex)
bookmarkData(surahIndex, ayahIndex) ==
    [surahIndex |-> surahIndex,
     ayahIndex |-> ayahIndex,
     surahName |-> IF SurahAt(surahs, surahIndex) = Undefined THEN "Surah"
                   ELSE SurahAt(surahs, surahIndex).name,
     ayahNumber |-> ayahIndex + 1,
     timestamp |-> now]

\* JSON.stringify of a bookmark, and JSON.parse of that text
StringifyBookmark(b) ==
    [text |-> "bookmark",
     fields |-> <<b.surahIndex, b.ayahIndex, b.surahName, b.ayahNumber, b.timestamp>>]
ParseBookmark(t) ==
    [surahIndex |-> t.fields[1], ayahIndex |-> t.fields[2], surahName |-> t.fields[3],
     ayahNumber |-> t.fields[4], timestamp |-> t.fields[5]]

\* the bookmarks an earlier session may have stored; the last one is of a
\* surah the bundled quranData no longer has
StoredBookmarks ==
    { StringifyBookmark([surahIndex |-> 0, ayahIndex |-> 0, surahName |-> "Al-Fatihah",
                         ayahNumber |-> 1, timestamp |-> -TickMs]),
      StringifyBookmark([surahIndex |-> 1, ayahIndex |-> 1, surahName |-> "Al-Ikhlas",
                         ayahNumber |-> 2, timestamp |-> -TickMs]),
      StringifyBookmark([surahIndex |-> 2, ayahIndex |-> 1, surahName |-> "Al-Falaq",
                         ayahNumber |-> 2, timestamp |-> -TickMs]) }

\* the screen at its first render, after the effect has run loadData up to
\* its await of AsyncStorage.getItem
QuranInit ==
    /\ QiblaClosed
    /\ TasbeehClosed
    /\ SidebarClosed
    /\ TabsClosed
    /\ quranStorage \in {Absent} \cup StoredBookmarks
    /\ surahs = quranData
    /\ selectedSurah = Null
    /\ quranLoading = TRUE
    /\ viewMode = "surah-list"
    /\ bookmark = Null
    /\ currentAyahIndex = 0
    /\ isScrolling = FALSE
    /\ initialRenderComplete = FALSE
    /\ scrollTimer = FALSE
    /\ bookmarkSaves = <<>>

\* the view the render function of QuranScreen returns; renderReadingSurah
\* returns null without a surah
QuranView ==
    IF quranLoading THEN "loading"
    ELSE IF viewMode = "read-surah" /\ selectedSurah \in {Null, Undefined} THEN "none"
    ELSE viewMode

\* the indices of the ayahs of the surah being read
AyahIndices == IF selectedSurah \in {Null, Undefined} THEN {} ELSE 0..(selectedSurah.ayahs - 1)

\* loadData continues after AsyncStorage.getItem resolved or rejected
QuranLoaded(rejected) ==
    /\ quranLoading
    /\ bookmark' = IF ~rejected /\ quranStorage # Absent THEN ParseBookmark(quranStorage)
                   ELSE bookmark
    /\ quranLoading' = FALSE
    /\ UNCHANGED <<outsideQuran, quranStorage, surahs, selectedSurah, viewMode, currentAyahIndex,
                   isScrolling, initialRenderComplete, scrollTimer, bookmarkSaves>>

\* a surah of the list is pressed: handleSurahSelect(surahs[index], index),
\* then useEffect([viewMode, selectedSurah]) with currentAyahIndex = 0
handleSurahSelect(index) ==
    /\ QuranView = "surah-list"
    /\ index \in 0..(Len(surahs) - 1)
    /\ selectedSurah' = SurahAt(surahs, index)
    /\ currentAyahIndex' = 0
    /\ viewMode' = "read-surah"
    /\ initialRenderComplete' = FALSE
    /\ scrollTimer' = FALSE
    /\ UNCHANGED <<outsideQuran, quranStorage, surahs, quranLoading, bookmark, isScrolling,
                   bookmarkSaves>>

\* goToBookmark without its test of the surah it found
goToBookmark_Unchecked(bm, list, state) ==
    IF bm = Null THEN state
    ELSE [selectedSurah |-> SurahAt(list, bm.surahIndex), viewMode |-> "read-surah",
          currentAyahIndex |-> bm.ayahIndex]

\* goToBookmark called in a render whose bookmark is bm and whose surahs is
\* list: the selectedSurah, viewMode and currentAyahIndex it leaves
goToBookmark(bm, list, state) ==
    IF bm = Null THEN state
    ELSE IF SurahAt(list, bm.surahIndex) = Undefined THEN state
    ELSE [selectedSurah |-> SurahAt(list, bm.surahIndex), viewMode |-> "read-surah",
          currentAyahIndex |-> bm.ayahIndex]

\* the floating bookmark button, rendered while there is a bookmark, is
\* pressed; when viewMode or selectedSurah changed, useEffect([viewMode,
\* selectedSurah]) starts its timer if currentAyahIndex > 0
PressGoToBookmark ==
    /\ QuranView = "surah-list"
    /\ bookmark # Null
    /\ LET after == goToBookmark(bookmark, surahs,
                              [selectedSurah |-> selectedSurah, viewMode |-> viewMode,
                               currentAyahIndex |-> currentAyahIndex])
       IN  /\ selectedSurah' = after.selectedSurah
           /\ viewMode' = after.viewMode
           /\ currentAyahIndex' = after.currentAyahIndex
           /\ scrollTimer' = IF after.viewMode # viewMode \/ after.selectedSurah # selectedSurah
                             THEN after.viewMode = "read-surah" /\ after.currentAyahIndex > 0
                             ELSE scrollTimer
    /\ UNCHANGED <<outsideQuran, quranStorage, surahs, quranLoading, bookmark, isScrolling,
                   initialRenderComplete, bookmarkSaves>>

\* the back button of the reading view is pressed; the cleanup of
\* useEffect([viewMode, selectedSurah]) clears the timer
handleBackToList ==
    /\ QuranView = "read-surah"
    /\ viewMode' = "surah-list"
    /\ selectedSurah' = Null
    /\ scrollTimer' = FALSE
    /\ UNCHANGED <<outsideQuran, quranStorage, surahs, quranLoading, bookmark, currentAyahIndex,
                   isScrolling, initialRenderComplete, bookmarkSaves>>

\* the 700 ms timer of useEffect([viewMode, selectedSurah]) fires while the
\* ayah list is mounted
ScrollTimerFires ==
    /\ scrollTimer
    /\ scrollTimer' = FALSE
    /\ initialRenderComplete' = (initialRenderComplete \/ QuranView = "read-surah")
    /\ UNCHANGED <<outsideQuran, quranStorage, surahs, selectedSurah, quranLoading, viewMode,
                   bookmark, currentAyahIndex, isScrolling, bookmarkSaves>>

\* handleScrollBeginDrag (dragging = TRUE), handleScrollEndDrag and
\* handleMomentumScrollEnd (dragging = FALSE)
handleScroll(dragging) ==
    /\ QuranView = "read-surah"
    /\ isScrolling' = dragging
    /\ UNCHANGED <<outsideQuran, quranStorage, surahs, selectedSurah, quranLoading, viewMode,
                   bookmark, currentAyahIndex, initialRenderComplete, scrollTimer, bookmarkSaves>>

\* the ayah list reports its viewable items, the first of which has this index
handleViewableItemsChanged(first) ==
    /\ QuranView = "read-surah"
    /\ first \in AyahIndices
    /\ currentAyahIndex' = IF ~isScrolling /\ initialRenderComplete THEN first
                           ELSE currentAyahIndex
    /\ UNCHANGED <<outsideQuran, quranStorage, surahs, selectedSurah, quranLoading, viewMode,
                   bookmark, isScrolling, initialRenderComplete, scrollTimer, bookmarkSaves>>

\* a bookmark button of the reading view is pressed: the one of the ayah at
\* index, or the one of the header (ofHeader), which takes currentAyahIndex;
\* saveBookmark runs up to its await of AsyncStorage.setItem
PressBookmark(ofHeader, index) ==
    /\ QuranView = "read-surah"
    /\ Len(bookmarkSaves) < MaxSaves
    /\ IF ofHeader THEN index = currentAyahIndex ELSE index \in AyahIndices
    /\ bookmarkSaves' =
          IF FindIndex(surahs, selectedSurah) # -1
          THEN Append(bookmarkSaves,
                      [stage |-> "setItem",
                       data |-> bookmarkData(FindIndex(surahs, selectedSurah), index)])
          ELSE bookmarkSaves
    /\ UNCHANGED <<outsideQuran, quranStorage, surahs, selectedSurah, quranLoading, viewMode,
                   bookmark, currentAyahIndex, isScrolling, initialRenderComplete, scrollTimer>>

\* the first call of saveBookmark whose setItem has not run yet
NextWrite == CHOOSE i \in 1..Len(bookmarkSaves) :
                 /\ bookmarkSaves[i].stage = "setItem"
                 /\ \A j \in 1..(i - 1) : bookmarkSaves[j].stage # "setItem"

\* saveBookmark going on to setBookmark after a rejected setItem
BookmarkWrite_IgnoreFailure(stored) ==
    /\ \E i \in 1..Len(bookmarkSaves) : bookmarkSaves[i].stage = "setItem"
    /\ quranStorage' = IF stored THEN StringifyBookmark(bookmarkSaves[NextWrite].data)
                       ELSE quranStorage
    /\ bookmarkSaves' = [bookmarkSaves EXCEPT ![NextWrite].stage = "written"]
    /\ UNCHANGED <<outsideQuran, surahs, selectedSurah, quranLoading, viewMode, bookmark,
                   currentAyahIndex, isScrolling, initialRenderComplete, scrollTimer>>

\* AsyncStorage.setItem of a saveBookmark stores the text, or rejects and the
\* catch of saveBookmark logs the error
BookmarkWrite(stored) ==
    /\ \E i \in 1..Len(bookmarkSaves) : bookmarkSaves[i].stage = "setItem"
    /\ quranStorage' = IF stored THEN StringifyBookmark(bookmarkSaves[NextWrite].data)
                       ELSE quranStorage
    /\ bookmarkSaves' = IF stored THEN [bookmarkSaves EXCEPT ![NextWrite].stage = "written"]
                        ELSE RemoveAt(bookmarkSaves, NextWrite)
    /\ UNCHANGED <<outsideQuran, surahs, selectedSurah, quranLoading, viewMode, bookmark,
                   currentAyahIndex, isScrolling, initialRenderComplete, scrollTimer>>

\* saveBookmark continues after its setItem: setBookmark(bookmarkData)
BookmarkSaved ==
    /\ bookmarkSaves # <<>>
    /\ Head(bookmarkSaves).stage = "written"
    /\ bookmark' = Head(bookmarkSaves).data
    /\ bookmarkSaves' = Tail(bookmarkSaves)
    /\ UNCHANGED <<outsideQuran, quranStorage, surahs, selectedSurah, quranLoading, viewMode,
                   currentAyahIndex, isScrolling, initialRenderComplete, scrollTimer>>

QuranNext ==
    \/ \E rejected \in BOOLEAN : QuranLoaded(rejected)
    \/ \E index \in 0..(Len(quranData) - 1) : handleSurahSelect(index)
    \/ PressGoToBookmark
    \/ handleBackToList
    \/ ScrollTimerFires
    \/ \E dragging \in BOOLEAN : handleScroll(dragging)
    \/ \E first \in 0..2 : handleViewableItemsChanged(first)
    \/ \E ofHeader \in BOOLEAN, index \in 0..2 : PressBookmark(ofHeader, index)
    \/ \E stored \in BOOLEAN : BookmarkWrite(stored)
    \/ BookmarkSaved
    \/ Tick

QuranSpec == QuranInit /\ [][QuranNext]_vars

----------------------------------------------------------------------------
(* Tab bar *)

MaxTabPresses == 12

\* state.routes of the tab navigator: the screens of TabLayout
routes ==
    << [key |-> "Qibla-key", name |-> "Qibla"],
       [key |-> "Quran-key", name |-> "Quran"],
       [key |-> "Tasbeeh-key", name |-> "Tasbeeh"] >>

TabsInit ==
    /\ QiblaClosed
    /\ TasbeehClosed
    /\ SidebarClosed
    /\ QuranClosed
    /\ TabsClosed

\* onPress that navigates although a listener prevented the default
PressTab_IgnorePrevented(index, prevented) ==
    /\ tabPresses < MaxTabPresses
    /\ index \in 0..(Len(routes) - 1)
    /\ tabEvent' = [type |-> "tabPress", target |-> routes[index + 1].key,
                    defaultPrevented |-> prevented]
    /\ tabIndex' = IF ~(tabIndex = index)
                   THEN (CHOOSE i \in 1..Len(routes) :
                             routes[i].name = routes[index + 1].name) - 1
                   ELSE tabIndex
    /\ tabPresses' = tabPresses + 1
    /\ UNCHANGED <<qiblaVars, tasbeehVars, sidebarVars, quranVars>>

\* onPress of the tab button of state.routes[index]: navigation.emit
\* returns the event, whose default a listener may have prevented;
\* navigation.navigate(name) focuses the route of that name
PressTab(index, prevented) ==
    /\ tabPresses < MaxTabPresses
    /\ index \in 0..(Len(routes) - 1)
    /\ tabEvent' = [type |-> "tabPress", target |-> routes[index + 1].key,
                    defaultPrevented |-> prevented]
    /\ tabIndex' = IF ~(tabIndex = index) /\ ~prevented
                   THEN (CHOOSE i \in 1..Len(routes) :
                             routes[i].name = routes[index + 1].name) - 1
                   ELSE tabIndex
    /\ tabPresses' = tabPresses + 1
    /\ UNCHANGED <<qiblaVars, tasbeehVars, sidebarVars, quranVars>>

TabsSpec ==
    TabsInit /\ [][\E index \in 0..2, prevented \in BOOLEAN : PressTab(index, prevented)]_vars

----------------------------------------------------------------------------
(* Properties *)

\* an angle in [0, 360)
Normalized(a) == 0 <= a /\ a < Deg360

\* C1: every subscription created by startMagnetometer is removed exactly
\* once: none is removed twice, and after unmount none is still active
C1_ReleasedExactlyOnce ==
    /\ \A s \in 1..Len(removes) : removes[s] <= 1
    /\ ~mounted => \A s \in 1..Len(removes) : removes[s] = 1

\* C2: at any time at most one magnetometer listener is active
C2_AtMostOneListener == Cardinality(ActiveListeners) <= 1

\* C3 as stated: the rotations of the compass view are in [0, 360)
C3_RotationsNormalized ==
    View = "compass" => Normalized(compassRotation) /\ Normalized(needleRotation)

\* C3 amended: heading and qiblaDirection are in [0, 360); the rotations of
\* the compass view are their unnormalised differences, compassRotation =
\* -heading in (-360, 0] and needleRotation = qiblaDirection - heading in
\* (-360, 360)
C3_RotationBounds ==
    /\ Normalized(heading)
    /\ Normalized(qiblaDirection)
    /\ View = "compass" =>
          /\ -Deg360 < compassRotation /\ compassRotation <= 0
          /\ -Deg360 < needleRotation /\ needleRotation < Deg360

\* a compass view with both rotations negative
C3_Witness ==
    /\ View = "compass"
    /\ HasCoords(location)
    /\ compassRotation < 0
    /\ needleRotation < 0

\* the bearing of every observer coordinate is in [0, 360), and 0 at the target
BearingTotal ==
    /\ \A c \in Coordinates : Normalized(calculateQiblaDirection(c))
    /\ calculateQiblaDirection([latitude |-> KAABA_LATITUDE, longitude |-> KAABA_LONGITUDE]) = 0

\* C4: calculateQiblaDirection stores a bearing in [0, 360) for every
\* observer coordinate, and 0 when the observer is at the Kaaba coordinate
C4_BearingInRange ==
    /\ BearingTotal
    /\ Normalized(qiblaDirection)
    /\ ( /\ HasCoords(location)
         /\ location.coords.latitude = KAABA_LATITUDE
         /\ location.coords.longitude = KAABA_LONGITUDE ) => qiblaDirection = 0

\* the observer is at the Kaaba coordinate after an earlier location whose
\* bearing was not 0
C4_Witness ==
    /\ HasCoords(location)
    /\ location.coords.latitude = KAABA_LATITUDE
    /\ location.coords.longitude = KAABA_LONGITUDE
    /\ qiblaDirection = 0
    /\ presses > 0
    /\ Len(removes) >= 2

\* the heading of every sample is in [0, 360) on both platforms, and 0 for (0, 0, 0)
HeadingTotal ==
    /\ \A os \in Platforms, data \in Samples \cup {InitialSample} :
          Normalized(calculateHeading(os, data))
    /\ \A os \in Platforms : calculateHeading(os, InitialSample) = 0

\* C5: calculateHeading stores a heading in [0, 360) for every sample on
\* either platform, and 0 for a sample with x = y = 0
C5_HeadingInRange ==
    /\ HeadingTotal
    /\ Normalized(heading)
    /\ (Truthy(location) /\ magnetometerData.x = 0 /\ magnetometerData.y = 0) => heading = 0

\* a sample whose raw atan2 angle is negative has been processed
C5_Witness ==
    /\ Truthy(location)
    /\ magnetometerData \in Samples
    /\ calculateHeading_Raw(platform, magnetometerData) < 0
    /\ heading > Deg180

\* C6: whenever location holds a coordinate, qiblaDirection is the bearing
\* from that coordinate to the Kaaba
C6_BearingFollowsLocation ==
    HasCoords(location) => qiblaDirection = calculateQiblaDirection(location.coords)

\* a fix replaced an earlier location and its bearing is not the initial 0
C6_Witness ==
    /\ HasCoords(location)
    /\ presses > 0
    /\ Len(removes) >= 2
    /\ storage = JSONstringify(location)
    /\ qiblaDirection # 0

\* C7: a magnetometer sample event leaves qiblaDirection, location,
\* accuracy, loading and error unchanged
C7_SampleFrame ==
    [][(\E data \in Samples : MagnetometerSample(data)) =>
          UNCHANGED <<qiblaDirection, location, accuracy, loading, error>>]_vars

\* a sample has changed magnetometerData and heading
C7_Witness ==
    /\ magnetometerData \in Samples
    /\ heading # 0
    /\ HasCoords(location)
    /\ qiblaDirection # 0

\* C8: while a location is present the heading is the heading of the latest
\* sample alone
C8_HeadingOfLatestSample ==
    Truthy(location) => heading = calculateHeading(platform, magnetometerData)

\* a sample with heading 90 or less has been processed after an earlier one
\* on a screen that still shows the compass
C8_Witness ==
    /\ Truthy(location)
    /\ magnetometerData \in Samples
    /\ 0 < heading /\ heading <= Deg90
    /\ View = "compass"

\* s with its x and y components exchanged
SwapXY(data) == [x |-> data.y, y |-> data.x, z |-> data.z]

\* the non-iOS heading of (x, y, z) is the iOS heading of (y, x, z)
PlatformsMirror ==
    \A data \in Samples : calculateHeading("android", data) = calculateHeading("ios", SwapXY(data))

\* C9: the heading is atan2(y, x) on iOS and atan2(x, y) elsewhere, so the
\* non-iOS heading of (x, y, z) equals the iOS heading of (y, x, z)
C9_PlatformFormula ==
    /\ PlatformsMirror
    /\ Truthy(location) =>
          heading = IF platform = "ios"
                    THEN Normalize360(Atan2Deg(magnetometerData.y, magnetometerData.x))
                    ELSE Normalize360(Atan2Deg(magnetometerData.x, magnetometerData.y))

\* a non-iOS heading that the iOS formula would not give
C9_Witness ==
    /\ platform = "android"
    /\ Truthy(location)
    /\ magnetometerData \in Samples
    /\ heading = Normalize360(Atan2Deg(magnetometerData.x, magnetometerData.y))
    /\ heading # Normalize360(Atan2Deg(magnetometerData.y, magnetometerData.x))

\* samples that agree on x and y have the same heading
HeadingIgnoresZ ==
    \A os \in Platforms, d1 \in Samples, d2 \in Samples :
        (d1.x = d2.x /\ d1.y = d2.y) => calculateHeading(os, d1) = calculateHeading(os, d2)

\* C10: the heading, and with it both rotations, do not depend on the z
\* component of the sample
C10_ZIndependence ==
    /\ HeadingIgnoresZ
    /\ Truthy(location) =>
          \A z \in ZValues \cup {0} :
              LET h == calculateHeading(platform, [magnetometerData EXCEPT !.z = z])
              IN  /\ heading = h
                  /\ compassRotation = -h
                  /\ needleRotation = qiblaDirection - h

\* a sample with a non-zero z and a non-zero heading has been processed
C10_Witness ==
    /\ Truthy(location)
    /\ magnetometerData.z # 0
    /\ heading # 0
    /\ needleRotation # 0

\* C11: needleRotation = qiblaDirection - heading and compassRotation =
\* -heading, with no normalisation, so the needle rotation changes sign when
\* bearing and heading are exchanged
C11_RotationsUnnormalized ==
    /\ compassRotation = -heading
    /\ needleRotation = qiblaDirection - heading
    /\ needleRotation = -(heading - qiblaDirection)

\* a compass view whose heading exceeds the bearing: the needle rotation is negative
C11_Witness ==
    /\ View = "compass"
    /\ 0 < qiblaDirection
    /\ qiblaDirection < heading
    /\ needleRotation = qiblaDirection - heading
    /\ needleRotation < 0

\* the step of a mounted screen in which the permission is not granted
PermissionDenied == mounted /\ \E i \in 1..Len(inflight) : PermissionResult(i, "denied")

\* the step of a mounted screen in which an awaited call of getCurrentLocation rejects
AwaitRejected == mounted /\ \E i \in 1..Len(inflight) : LocationFailure(i)

\* the step of a mounted screen in which Magnetometer.addListener throws
ListenerFailed ==
    /\ mounted
    /\ Truthy(location')
    /\ \E i \in 1..Len(inflight) :
          \/ \E rejected \in BOOLEAN : loadSavedLocation(i, rejected, FALSE)
          \/ LocationSaved(i, FALSE)

\* a denied permission requests no position fix and leaves location alone
DeniedStopsThere ==
    PermissionDenied =>
        /\ location' = location
        /\ \A j \in 1..Len(inflight') : inflight'[j].stage # "position"

RetryOffered ==
    (mounted /\ View = "error" /\ presses < MaxPresses) => ENABLED PressRefreshOrRetry

\* Retry starts getCurrentLocation: error cleared, loading set, permission requested
RetryRestarts ==
    (PressRefreshOrRetry /\ View = "error") =>
        /\ error' = NoError
        /\ loading' = TRUE
        /\ inflight' = Append(inflight, Op("permission", NoLocation))

SavedFixCommitted ==
    \A i \in 1..Len(inflight), listenerOk \in BOOLEAN :
        (mounted /\ error = NoError /\ LocationSaved(i, listenerOk)) =>
            /\ error' = IF listenerOk THEN NoError ELSE CompassError
            /\ loading' = FALSE
            /\ location' = inflight[i].fix
            /\ qiblaDirection' = calculateQiblaDirection(inflight[i].fix.coords)

\* a getCurrentLocation started by Retry runs with error = null
RetryRunsWithoutError ==
    (mounted /\ presses > 0 /\ inflight # <<>> /\ View # "compass" /\ ~Truthy(location)) =>
        error = NoError

CacheHit == storage # Absent /\ ~ParseThrows(storage) /\ HasCoords(JSONparse(storage))

\* C14: on cold start a cached location with coords becomes the location
\* with no permission request and no position fix, and loading becomes
\* false; in every other case getCurrentLocation is invoked exactly once
C14_ColdStart ==
    [][ \A i \in 1..Len(inflight), rejected \in BOOLEAN, listenerOk \in BOOLEAN :
            (mounted /\ loadSavedLocation(i, rejected, listenerOk)) =>
                IF ~rejected /\ CacheHit
                THEN /\ location' = JSONparse(storage)
                     /\ loading' = FALSE
                     /\ inflight' = <<>>
                ELSE /\ inflight' = <<Op("permission", NoLocation)>>
                     /\ loading' = TRUE ]_vars

\* the cache was used: a location, no press, nothing requested
C14_Witness ==
    /\ mounted
    /\ presses = 0
    /\ HasCoords(location)
    /\ storage = JSONstringify(location)
    /\ inflight = <<>>
    /\ ~loading

\* the cache entry parses to the location state
LocationIsCached == ~ParseThrows(storage) /\ JSONparse(storage) = location

\* C15 as stated, for a location with coords: whenever location is non-null
\* it equals the stored value
C15_LocationAlwaysCached == (mounted /\ HasCoords(location)) => LocationIsCached

\* a cache write has landed and its continuation has not run yet
WritePending == \E i \in 1..Len(inflight) : inflight[i].stage = "written"

\* a failed cache write discards the fix
FailedWriteDiscardsFix ==
    \A i \in 1..Len(inflight) :
        (mounted /\ inflight[i].stage = "setItem" /\ LocationFailure(i)) =>
            /\ location' = location
            /\ storage' = storage
            /\ error' = LocationError

\* the fix is in the cache before it is put in state
WrittenBeforeState ==
    \A i \in 1..Len(inflight), listenerOk \in BOOLEAN :
        (mounted /\ LocationSaved(i, listenerOk)) => storage = JSONstringify(location')

\* C15 amended: a non-null location equals the stored value except between
\* the cache write of a new fix and the continuation that puts the fix in
\* state; the fix is written before it is put in state, and a failed write
\* leaves location and storage unchanged and shows the location error
C15_LocationCachedAtRest ==
    /\ []((mounted /\ Truthy(location) /\ ~WritePending) => LocationIsCached)
    /\ [][FailedWriteDiscardsFix /\ WrittenBeforeState]_vars

\* the cache already holds the new fix while location still holds the old one
C15_Witness ==
    /\ mounted
    /\ HasCoords(location)
    /\ WritePending
    /\ ~LocationIsCached

\* C16: at most one loadSavedLocation / getCurrentLocation is in flight;
\* while one is, loading is true, and Refresh / Retry are pressed only while
\* loading is false and set it
C16_SingleLocationOp ==
    /\ [](Len(inflight) <= 1 /\ ((mounted /\ inflight # <<>>) => loading))
    /\ [][PressRefreshOrRetry => (~loading /\ loading')]_vars

\* a pressed getCurrentLocation is waiting for its position fix, alone
C16_Witness ==
    /\ mounted
    /\ presses > 0
    /\ Len(inflight) = 1
    /\ inflight[1].stage = "position"
    /\ loading

\* an awaited storage, permission or position call resolves or rejects
Resolve ==
    \E i \in 1..Len(inflight) :
        \/ \E rejected \in BOOLEAN, listenerOk \in BOOLEAN : loadSavedLocation(i, rejected, listenerOk)
        \/ \E outcome \in {"granted", "denied"} : PermissionResult(i, outcome)
        \/ \E fix \in Fixes : PositionFix(i, fix)
        \/ CacheWrite(i)
        \/ \E listenerOk \in BOOLEAN : LocationSaved(i, listenerOk)
        \/ LocationFailure(i)

\* every awaited call eventually resolves or rejects
FairSpec == Spec /\ WF_vars(Resolve)

\* C18: when every awaited call eventually resolves or rejects, the loading
\* flag of the mounted screen eventually becomes false
C18_LoadingEnds == (mounted /\ loading) ~> (~loading \/ ~mounted)

\* a retry ended by a denied permission: loading is false again
C18_Witness ==
    /\ mounted
    /\ presses > 0
    /\ error = PermissionError
    /\ ~loading
    /\ inflight = <<>>

\* the value useContext(SidebarContext) hands to the caller
SidebarContextValue == useContext(sidebarProvider)

\* C17: useSidebar throws 'useSidebar must be used within a SidebarProvider'
\* exactly when the SidebarContext value is undefined, and otherwise returns
\* the provided context value unchanged
C17_UseSidebarThrowsIffUndefined ==
    [][CallerRenders =>
          /\ (sidebarOutcome'.threw <=> SidebarContextValue = Undefined)
          /\ sidebarOutcome'.threw => sidebarOutcome'.message = SidebarError
          /\ ~sidebarOutcome'.threw => sidebarOutcome'.value = sidebarProvider.value]_vars

\* useSidebar threw with no provider above the caller
C17_Witness ==
    /\ sidebarProvider = NoProvider
    /\ sidebarOutcome = Threw(SidebarError)

\* the key holds an item that parses
ItemExists(key) == tasbeehStorage[key] # Absent /\ ~ItemParseThrows(tasbeehStorage[key])

\* the age of the item under the key
ItemAge(key) == now - tasbeehStorage[key].timestamp

\* getWithExpiry(key) of loadData returns value in this step: loadData goes
\* on with it
Returns(key, value) ==
    IF key = TASBEEH_COUNTS_KEY
    THEN /\ savedCounts' = value
         /\ loadAwait' = [key |-> LAST_TASBEEH_KEY, call |-> "getItem"]
    ELSE /\ selectedAdhkar' = value
         /\ loadAwait' = NoAwait

C20_CounterPress ==
    /\ [][handleCounterPress =>
            /\ count' = count + 1
            /\ selectedAdhkar.id \in DOMAIN counts'
            /\ counts'[selectedAdhkar.id] = count'
            /\ \A id \in AdhkarIds \ {selectedAdhkar.id} :
                  /\ id \in DOMAIN counts' <=> id \in DOMAIN counts
                  /\ id \in DOMAIN counts => counts'[id] = counts[id]
            /\ DOMAIN counts' \subseteq DOMAIN counts \cup {selectedAdhkar.id}
            /\ selectedAdhkar' = selectedAdhkar
            /\ category' = category]_vars
    /\ [](count = countBefore + pressRun)

\* two presses in a row on one adhkar while the other one has a count and a
\* category other than the initial one is chosen
C20_Witness ==
    /\ TasbeehView = "counter"
    /\ pressRun = 2
    /\ count = countBefore + 2
    /\ counts[selectedAdhkar.id] = count
    /\ \E id \in DOMAIN counts : id # selectedAdhkar.id /\ counts[id] > 0
    /\ category # "all"

\* what handleReset leaves when it returns at its first line
ResetIgnored(selected) ==
    handleReset(selected, count, counts) = [count |-> count, counts |-> counts, rendered |-> FALSE]

\* C21: handleReset sets the displayed count and counts[selectedAdhkar.id] to
\* 0, leaves the count of every other adhkar id unchanged and has the new
\* counts object written; called with no adhkar selected it calls no setter,
\* so that no state changes and no write is issued
C21_Reset ==
    /\ [][PressReset =>
            /\ count' = 0
            /\ selectedAdhkar.id \in DOMAIN counts'
            /\ counts'[selectedAdhkar.id] = 0
            /\ \A id \in AdhkarIds \ {selectedAdhkar.id} :
                  /\ id \in DOMAIN counts' <=> id \in DOMAIN counts
                  /\ id \in DOMAIN counts => counts'[id] = counts[id]
            /\ saves' = Append(saves, saveWithExpiry(TASBEEH_COUNTS_KEY, counts'))
            /\ selectedAdhkar' = selectedAdhkar
            /\ tasbeehStorage' = tasbeehStorage]_vars
    /\ [](ResetIgnored(Null) /\ (selectedAdhkar # Null => ~ResetIgnored(selectedAdhkar)))

\* a reset of an adhkar that had been counted, while the other one keeps its
\* count: only handleReset gives an id the count 0
C21_Witness ==
    /\ TasbeehView = "counter"
    /\ selectedAdhkar.id \in DOMAIN counts
    /\ counts[selectedAdhkar.id] = 0
    /\ count = 0
    /\ \E id \in DOMAIN counts : id # selectedAdhkar.id /\ counts[id] > 0
    /\ saves # <<>>
    /\ Head(saves).text.value = counts

\* C22: whenever an adhkar is selected the displayed count is
\* counts[selectedAdhkar.id], or 0 when that id has no entry; every count
\* held in memory, queued for writing or stored is a non-negative integer
C22_CountIsSelectedCount ==
    /\ selectedAdhkar # Null => count = CountOf(counts, selectedAdhkar.id)
    /\ count \in Nat
    /\ \A id \in DOMAIN counts : counts[id] \in Nat
    /\ \A i \in 1..Len(saves) :
          saves[i].key = TASBEEH_COUNTS_KEY =>
              \A id \in DOMAIN saves[i].text.value : saves[i].text.value[id] \in Nat
    /\ ItemExists(TASBEEH_COUNTS_KEY) =>
          \A id \in DOMAIN tasbeehStorage[TASBEEH_COUNTS_KEY].value :
              tasbeehStorage[TASBEEH_COUNTS_KEY].value[id] \in Nat

\* back in the list after presses on a loaded adhkar, the other adhkar having
\* been reset before: load, select, press, reset and back have all run
C22_Witness ==
    /\ TasbeehView = "list"
    /\ selectedAdhkar # Null
    /\ pressRun > 0
    /\ count = counts[selectedAdhkar.id]
    /\ count > 1
    /\ \E id \in DOMAIN counts : id # selectedAdhkar.id /\ counts[id] = 0
    /\ ItemExists(LAST_TASBEEH_KEY)
    /\ tasbeehStorage[LAST_TASBEEH_KEY].value = selectedAdhkar

\* the stored counts were removed although they were at most 30 minutes old
FreshCountsRemoved ==
    /\ tasbeehStorage[TASBEEH_COUNTS_KEY] # Absent
    /\ ~ItemParseThrows(tasbeehStorage[TASBEEH_COUNTS_KEY])
    /\ now - tasbeehStorage[TASBEEH_COUNTS_KEY].timestamp <= 30 * 60 * 1000
    /\ tasbeehStorage'[TASBEEH_COUNTS_KEY] = Absent

\* the same for the last tasbeeh
FreshLastRemoved ==
    /\ tasbeehStorage[LAST_TASBEEH_KEY] # Absent
    /\ ~ItemParseThrows(tasbeehStorage[LAST_TASBEEH_KEY])
    /\ now - tasbeehStorage[LAST_TASBEEH_KEY].timestamp <= 30 * 60 * 1000
    /\ tasbeehStorage'[LAST_TASBEEH_KEY] = Absent

\* C24: no step of clearExpiredItems removes an item whose stored timestamp
\* is at most 30 minutes old, however its getItem and removeItem interleave
\* with the writes of saveWithExpiry
C24_CleanupKeepsFreshItems ==
    [][(\E removed \in BOOLEAN : CleanupRemoveItem(removed)) =>
           ~FreshCountsRemoved /\ ~FreshLastRemoved]_vars

\* no write of the counts is waiting in the queue q
NoCountsWrite(q) == \A i \in 1..Len(q) : q[i].key # "tasbeeh_counts"

\* the value stored under 'tasbeeh_counts' is the counts object in memory
CountsStored ==
    /\ ItemExists(TASBEEH_COUNTS_KEY)
    /\ tasbeehStorage[TASBEEH_COUNTS_KEY].value = counts

\* C23: a press or a reset issues a write of exactly the new counts object
\* under 'tasbeeh_counts'; no write is pending while loading is true; when
\* the last issued write of the counts completes successfully the stored
\* value is the counts object in memory, and it stays so while no press or
\* reset issues another write (and the stored item is not older than 30
\* minutes)
C23_CountsPersisted ==
    /\ [][(handleCounterPress \/ PressReset) =>
            saves' = Append(saves, [key |-> "tasbeeh_counts",
                                    text |-> StringifyItem(counts', now)])]_vars
    /\ [](tasbeehLoading => saves = <<>>)
    /\ [][(SetItemSettles(TRUE) /\ ~NoCountsWrite(saves) /\ NoCountsWrite(saves')) =>
            CountsStored']_vars
    /\ [][(/\ CountsStored
           /\ ItemAge(TASBEEH_COUNTS_KEY) <= 30 * 60 * 1000
           /\ NoCountsWrite(saves)
           /\ NoCountsWrite(saves')) => CountsStored']_vars

\* the setItem of a write of the counts rejects
CountsWriteFails == SetItemSettles(FALSE) /\ Head(saves).key = "tasbeeh_counts"

\* C25: when writing the counts to storage fails, saveCounts alerts the user
\* with 'Failed to save your progress', and the failure leaves the count and
\* the counts in memory unchanged
C25_FailedWriteAlerts ==
    [][CountsWriteFails =>
           /\ alert' = "Failed to save your progress"
           /\ count' = count
           /\ counts' = counts]_vars

\* getWithExpiry(key) finds an item: the read is not rejected and the item
\* exists and is not older than 30 minutes
Found(key, rejected) ==
    ~rejected /\ ItemExists(key) /\ ItemAge(key) <= 30 * 60 * 1000

\* loadData ends with the counter view of the adhkar stored under
\* 'last_tasbeeh', its count taken from the saved counts
EndsInCounterView ==
    /\ selectedAdhkar' = tasbeehStorage[LAST_TASBEEH_KEY].value
    /\ TasbeehView' = "counter"
    /\ count' = IF savedCounts = Null \/ selectedAdhkar'.id \notin DOMAIN savedCounts
                THEN 0 ELSE savedCounts[selectedAdhkar'.id]
    /\ ~tasbeehLoading'

\* loadData ends with the list view and no adhkar selected
EndsInListView ==
    /\ selectedAdhkar' = Null
    /\ TasbeehView' = "list"
    /\ ~tasbeehLoading'

StoredBookmark == IF quranStorage = Absent THEN Null ELSE ParseBookmark(quranStorage)

\* C27 as stated: once loadData is done and no saveBookmark is pending, the
\* in-memory bookmark equals the stored one.
C27_BookmarkEqualsStored ==
    [](~quranLoading /\ bookmarkSaves = <<>> => bookmark = StoredBookmark)

\* C27, amended: there is one bookmark (one state variable, one storage key).
\* Once no saveBookmark is pending, a non-null in-memory bookmark equals the
\* stored one, and loadData leaves the stored one in memory unless its read
\* is rejected, in which case the in-memory bookmark stays null. The
\* in-memory bookmark changes only to the data of a saveBookmark whose write
\* has succeeded; the write leaves it alone, and a failed write leaves the
\* storage alone too. Every bookmark saveBookmark creates has ayahNumber =
\* ayahIndex + 1 and a surahIndex of an existing surah.
C27_BookmarkSaved ==
    /\ [](bookmarkSaves = <<>> /\ bookmark # Null => bookmark = StoredBookmark)
    /\ [][\A rejected \in BOOLEAN :
            QuranLoaded(rejected) =>
                bookmark' = IF rejected THEN Null ELSE StoredBookmark]_vars
    /\ [][(\E rejected \in BOOLEAN : QuranLoaded(rejected)) \/ bookmark' = bookmark
          \/ /\ bookmarkSaves # <<>>
             /\ Head(bookmarkSaves).stage = "written"
             /\ bookmark' = Head(bookmarkSaves).data]_vars
    /\ [][\A stored \in BOOLEAN :
            BookmarkWrite(stored) =>
                /\ bookmark' = bookmark
                /\ quranStorage' = IF stored
                                   THEN StringifyBookmark(bookmarkSaves[NextWrite].data)
                                   ELSE quranStorage
                /\ ~stored => Len(bookmarkSaves') = Len(bookmarkSaves) - 1]_vars
    /\ [](\A i \in 1..Len(bookmarkSaves) :
            /\ bookmarkSaves[i].data.ayahNumber = bookmarkSaves[i].data.ayahIndex + 1
            /\ SurahAt(surahs, bookmarkSaves[i].data.surahIndex) # Undefined)

\* a bookmark saved in this session is in memory and in the storage
C27_Witness ==
    /\ bookmarkSaves = <<>>
    /\ bookmark # Null
    /\ bookmark.timestamp >= 0
    /\ bookmark.ayahIndex > 0
    /\ bookmark = StoredBookmark


\* C28: while a surah is read and the list is not dragged, viewable items
\* that change make currentAyahIndex the index of the first viewable ayah,
\* for a surah opened from the list as for one opened through goToBookmark.
C28_TracksFirstViewable ==
    \A first \in AyahIndices :
        QuranView = "read-surah" /\ ~isScrolling
            => ENABLED (handleViewableItemsChanged(first) /\ currentAyahIndex' = first)

\* C29: viewMode is 'read-surah' exactly when a surah is selected;
\* goToBookmark changes nothing without a bookmark or when
\* bookmark.surahIndex is not the index of a surah, and otherwise selects
\* surahs[bookmark.surahIndex] with currentAyahIndex = bookmark.ayahIndex.
C29_ReadingIffSelected ==
    /\ [](viewMode = "read-surah" <=> selectedSurah \notin {Null, Undefined})
    /\ [](LET state == [selectedSurah |-> selectedSurah, viewMode |-> viewMode,
                        currentAyahIndex |-> currentAyahIndex]
          IN  /\ goToBookmark(Null, surahs, state) = state
              /\ bookmark # Null /\ SurahAt(surahs, bookmark.surahIndex) = Undefined
                    => goToBookmark(bookmark, surahs, state) = state)
    /\ [][PressGoToBookmark =>
            IF SurahAt(surahs, bookmark.surahIndex) = Undefined
            THEN UNCHANGED vars
            ELSE /\ selectedSurah' = SurahAt(surahs, bookmark.surahIndex)
                 /\ selectedSurah' \in {quranData[i] : i \in 1..Len(quranData)}
                 /\ viewMode' = "read-surah"
                 /\ currentAyahIndex' = bookmark.ayahIndex]_vars

\* the bookmarked surah is being read at the bookmarked ayah, which no surah
\* opened from the list reaches before a timer has run
C29_Witness ==
    /\ viewMode = "read-surah"
    /\ bookmark # Null
    /\ selectedSurah = SurahAt(surahs, bookmark.surahIndex)
    /\ currentAyahIndex = bookmark.ayahIndex
    /\ currentAyahIndex > 0
    /\ ~initialRenderComplete


\* C30: pressing a tab button emits a 'tabPress' event whose target is the
\* route of the button; the press navigates to that route exactly when the
\* tab is not focused and the default of the event was not prevented, and
\* otherwise leaves the focused index as it is.
C30_TabPress ==
    [][\A index \in 0..2, prevented \in BOOLEAN :
          PressTab(index, prevented) =>
              /\ tabEvent'.type = "tabPress"
              /\ tabEvent'.target = routes[index + 1].key
              /\ IF tabIndex # index /\ ~prevented
                 THEN tabIndex' = index /\ tabIndex' # tabIndex
                 ELSE tabIndex' = tabIndex]_vars

\* after a navigation, a press of another tab has been prevented
C30_Witness ==
    /\ tabIndex # 0
    /\ tabEvent.type = "tabPress"
    /\ tabEvent.defaultPrevented
    /\ tabEvent.target # routes[tabIndex + 1].key

====
